---- MODULE Spec2Model ----
(***************************************************************************)
(* Model of forex_chart.py: the Streamlit script that downloads an index   *)
(* series and an FX series (fetch_data), merges and converts them          *)
(* (process_data) and shows a "current price" metric and a chart (main).   *)
(*                                                                         *)
(* A DataFrame is modelled column-wise: [index |-> sequence of timestamps, *)
(* multi |-> whether the columns are a MultiIndex, cols |-> function from  *)
(* column name to the sequence of the column's values].  Prices are        *)
(* integers; a mean or a quotient is an exact fraction [num, den] in       *)
(* lowest terms, with den = 0 standing for the IEEE values inf, -inf and   *)
(* NaN (num = 1, -1, 0).                                                   *)
(***************************************************************************)
EXTENDS Integers, Sequences, FiniteSets, TLC

VARIABLES
    widgets,            \* the widget values of the session (sidebar selections)
    feed,               \* what yf.download answers to the successive requests
    pc,                 \* position of the script run
    INDEX_TICKER, TARGET_CURRENCY, INTERVAL, PERIOD, forex_ticker,
    tickers_to_fetch,   \* main's locals (lines 65-89)
    downloads,          \* the yf.download requests made so far
    data_dict,          \* fetch_data's local dictionary
    all_data,           \* main's copy of fetch_data's result
    combined_df, converted_close_col,   \* process_data's result
    price_change, price_change_pct,     \* main's metric locals
    ui,                 \* the elements written to the page, in order
    exception           \* the exception that ended the run, "" when none

configVars == <<INDEX_TICKER, TARGET_CURRENCY, INTERVAL, PERIOD, forex_ticker, tickers_to_fetch>>
fetchVars == <<downloads, data_dict>>
resultVars == <<combined_df, converted_close_col, price_change, price_change_pct>>
vars == <<widgets, feed, pc, configVars, fetchVars, all_data, resultVars, ui, exception>>

-----------------------------------------------------------------------------
(* Bounds of the checked input families.                                   *)

\* timestamps of the small series are drawn from 1..MaxT
MaxT == 3
\* the long series have up to MaxLen consecutive timestamps
MaxLen == 51
\* the series of the control-flow specification have up to TinyLen rows
TinyLen == 2
\* fetch_data is applied to ticker lists of up to MaxTickers entries
MaxTickers == 3

-----------------------------------------------------------------------------
(* Numbers.                                                                *)

Abs(n) == IF n < 0 THEN -n ELSE n

Sign(n) == IF n > 0 THEN 1 ELSE IF n < 0 THEN -1 ELSE 0

RECURSIVE GCD(_, _)
GCD(a, b) == IF b = 0 THEN a ELSE GCD(b, a % b)

\* float division n / d: the exact quotient, or inf, -inf, NaN when d = 0
Frac(n, d) ==
    IF d = 0 THEN [num |-> Sign(n), den |-> 0]
    ELSE LET g == GCD(Abs(n), Abs(d))
         IN  [num |-> (Sign(d) * n) \div g, den |-> Abs(d) \div g]

NaN == [num |-> 0, den |-> 0]

RECURSIVE SumRange(_, _, _)
SumRange(s, lo, hi) == IF lo > hi THEN 0 ELSE s[lo] + SumRange(s, lo + 1, hi)

-----------------------------------------------------------------------------
(* DataFrames.                                                             *)

NoFrame == [index |-> <<>>, multi |-> FALSE, cols |-> <<>>]

\* DataFrame.empty
IsEmpty(df) == Len(df.index) = 0 \/ DOMAIN df.cols = {}

\* data.columns.get_level_values(0): the first level of a MultiIndex
get_level_values_0(df) == [df EXCEPT !.multi = FALSE]

\* df[[c1, ..., cn]].copy()
SelectColumns(df, names) ==
    [index |-> df.index, multi |-> df.multi, cols |-> [c \in names |-> df.cols[c]]]

\* df.columns = [rename[c] for c in df.columns]
RenameColumns(df, rename) ==
    [index |-> df.index, multi |-> df.multi,
     cols |-> [n \in {rename[c] : c \in DOMAIN df.cols} |->
                  df.cols[CHOOSE c \in DOMAIN df.cols : rename[c] = n]]]

\* df[name] = values
SetColumn(df, name, values) ==
    [df EXCEPT !.cols = [c \in DOMAIN df.cols \cup {name} |->
                            IF c = name THEN values ELSE df.cols[c]]]

\* a[i] * b[i], the product of two columns of the same frame
ColumnProduct(a, b) == [i \in 1..Len(a) |-> a[i] * b[i]]

\* a join on the latest earlier key: each left row takes the last right row
\* whose key is not later (a forward-filling join)
RECURSIVE JoinPairsAsOf(_, _, _)
JoinPairsAsOf(left, right, i) ==
    IF i > Len(left) THEN <<>>
    ELSE LET earlier == {j \in 1..Len(right) : right[j] <= left[i]}
         IN  (IF earlier = {} THEN <<>>
              ELSE <<<<i, CHOOSE j \in earlier : \A k \in earlier : k <= j>>>>)
             \o JoinPairsAsOf(left, right, i + 1)

\* the pairs <<i, j>> of row positions with left[i] = right[j], in the order of
\* the left keys
RECURSIVE JoinPairs(_, _, _)
JoinPairs(left, right, i) ==
    IF i > Len(left) THEN <<>>
    ELSE SelectSeq([j \in 1..Len(right) |-> <<i, j>>],
                   LAMBDA p : left[p[1]] = right[p[2]])
         \o JoinPairs(left, right, i + 1)

\* a join on the row position instead of the timestamp
merge_by_position(left, right) ==
    LET n == IF Len(left.index) < Len(right.index) THEN Len(left.index) ELSE Len(right.index)
    IN  [index |-> [k \in 1..n |-> left.index[k]],
         multi |-> left.multi,
         cols  |-> [c \in DOMAIN left.cols \cup DOMAIN right.cols |->
                       IF c \in DOMAIN left.cols
                       THEN [k \in 1..n |-> left.cols[c][k]]
                       ELSE [k \in 1..n |-> right.cols[c][k]]]]

\* pd.merge(left, right, left_index=True, right_index=True, how='inner'), for
\* frames with no column name in common
merge(left, right) ==
    LET pairs == JoinPairs(left.index, right.index, 1)
    IN  [index |-> [k \in 1..Len(pairs) |-> left.index[pairs[k][1]]],
         multi |-> left.multi,
         cols  |-> [c \in DOMAIN left.cols \cup DOMAIN right.cols |->
                       IF c \in DOMAIN left.cols
                       THEN [k \in 1..Len(pairs) |-> left.cols[c][pairs[k][1]]]
                       ELSE [k \in 1..Len(pairs) |-> right.cols[c][pairs[k][2]]]]]

\* rolling(window, min_periods=1): a mean of the rows there are
rolling_mean_min_periods_1(series, window) ==
    [i \in 1..Len(series) |->
        IF i < window THEN Frac(SumRange(series, 1, i), i)
        ELSE Frac(SumRange(series, i - window + 1, i), window)]

\* series.rolling(window=window).mean(): min_periods defaults to the window
rolling_mean(series, window) ==
    [i \in 1..Len(series) |->
        IF i < window THEN NaN
        ELSE Frac(SumRange(series, i - window + 1, i), window)]

-----------------------------------------------------------------------------
(* process_data (lines 28-55).                                             *)

OHLC == <<"Open", "High", "Low", "Close">>

MA20_WINDOW == 20
MA50_WINDOW == 50

\* f'{col}_{currency}'
ColName(col, currency) == col \o "_" \o currency

\* every converted column taken from the close
ConvertColumnFromClose(df, col, base_currency, target_currency) ==
    SetColumn(df, ColName(col, target_currency),
              ColumnProduct(df.cols[ColName("Close", base_currency)], df.cols["Forex_Rate"]))

\* line 46: the converted column of one OHLC field
ConvertColumn(df, col, base_currency, target_currency) ==
    SetColumn(df, ColName(col, target_currency),
              ColumnProduct(df.cols[ColName(col, base_currency)], df.cols["Forex_Rate"]))

\* lines 43-46: the loop over the four fields, in order
RECURSIVE ConvertAll(_, _, _, _)
ConvertAll(df, k, base_currency, target_currency) ==
    IF k > Len(OHLC) THEN df
    ELSE ConvertAll(ConvertColumn(df, OHLC[k], base_currency, target_currency),
                    k + 1, base_currency, target_currency)

\* lines 50-53: the requested moving averages of the converted close
AddIndicators(df, close_col, show_ma20, show_ma50) ==
    LET with20 == IF show_ma20
                  THEN SetColumn(df, "MA20", rolling_mean(df.cols[close_col], MA20_WINDOW))
                  ELSE df
    IN  IF show_ma50
        THEN SetColumn(with20, "MA50", rolling_mean(with20.cols[close_col], MA50_WINDOW))
        ELSE with20

process_data(index_data, forex_data, base_currency, target_currency, show_ma20, show_ma50) ==
    LET df_index == RenameColumns(
                        SelectColumns(index_data, {OHLC[k] : k \in 1..Len(OHLC)}),
                        [c \in {OHLC[k] : k \in 1..Len(OHLC)} |-> ColName(c, base_currency)])
        df_forex == RenameColumns(SelectColumns(forex_data, {"Close"}),
                                  [c \in {"Close"} |-> "Forex_Rate"])
        merged == merge(df_index, df_forex)
        converted == ConvertAll(merged, 1, base_currency, target_currency)
        converted_close == ColName("Close", target_currency)
    IN  [combined_df |-> AddIndicators(converted, converted_close, show_ma20, show_ma50),
         converted_close_col |-> converted_close]

-----------------------------------------------------------------------------
(* main's configuration tables (lines 63-88).                              *)

index_options ==
    ("Dow Jones Industrial Average" :> "^DJI") @@ ("S&P 500" :> "^GSPC") @@
    ("NASDAQ Composite" :> "^IXIC") @@ ("FTSE 100" :> "^FTSE") @@ ("DAX" :> "^GDAXI")

currency_options == {"EUR", "GBP", "JPY", "AUD", "CAD", "CHF", "CNY"}

BASE_CURRENCY == "USD"

interval_options ==
    ("1 Minute" :> "1m") @@ ("5 Minutes" :> "5m") @@ ("15 Minutes" :> "15m") @@
    ("30 Minutes" :> "30m") @@ ("1 Hour" :> "1h") @@ ("1 Day" :> "1d")

chart_types == {"Line Chart", "Candlestick Chart"}

\* the provider's own spelling of the hourly interval only
intraday_intervals_without_1h == {"1m", "2m", "5m", "15m", "30m", "60m", "90m"}

intraday_intervals == {"1m", "2m", "5m", "15m", "30m", "60m", "90m", "1h"}

\* line 87
PeriodFor(interval) == IF interval \in intraday_intervals THEN "59d" ELSE "1y"

\* line 88
ForexTicker(base_currency, target_currency) == base_currency \o target_currency \o "=X"

\* every combination of sidebar selections
AllWidgets ==
    [index_name : DOMAIN index_options, currency : currency_options,
     interval_name : DOMAIN interval_options, chart_type : chart_types,
     show_ma20 : BOOLEAN, show_ma50 : BOOLEAN]

show_ma20 == widgets.show_ma20
show_ma50 == widgets.show_ma50
chart_type == widgets.chart_type

-----------------------------------------------------------------------------
(* Page elements and dictionaries.                                         *)

Element(kind, text) == [kind |-> kind, text |-> text, keys |-> {}]

\* data_dict[ticker] = data
DictPut(dict, key, value) ==
    [k \in DOMAIN dict \cup {key} |-> IF k = key THEN value ELSE dict[k]]

PERCENT == 100

\* line 107
PriceChange(last, prev) == last - prev

\* the change relative to the last close instead of the previous one
PriceChangePctOfLast(change, prev) == Frac(change * PERCENT, prev + change)

\* line 108
PriceChangePct(change, prev) == Frac(change * PERCENT, prev)

-----------------------------------------------------------------------------
(* The script run.                                                         *)

\* lines 59-89: read the widgets, derive the period and the two tickers
Configure ==
    /\ pc = "start"
    /\ INDEX_TICKER' = index_options[widgets.index_name]
    /\ TARGET_CURRENCY' = widgets.currency
    /\ INTERVAL' = interval_options[widgets.interval_name]
    /\ PERIOD' = PeriodFor(interval_options[widgets.interval_name])
    /\ forex_ticker' = ForexTicker(BASE_CURRENCY, widgets.currency)
    /\ tickers_to_fetch' = <<index_options[widgets.index_name],
                             ForexTicker(BASE_CURRENCY, widgets.currency)>>
    /\ pc' = "fetch"
    /\ UNCHANGED <<widgets, feed, fetchVars, all_data, resultVars, ui, exception>>

\* the dictionary without the test of data.empty
StoreResultAlsoEmpty(dict, ticker, outcome) ==
    IF outcome.kind = "data"
    THEN DictPut(dict, ticker,
                 IF outcome.df.multi THEN get_level_values_0(outcome.df) ELSE outcome.df)
    ELSE dict

\* lines 17-24: what one download's outcome does to the dictionary
StoreResult(dict, ticker, outcome) ==
    IF outcome.kind = "data" /\ ~IsEmpty(outcome.df)
    THEN DictPut(dict, ticker,
                 IF outcome.df.multi THEN get_level_values_0(outcome.df) ELSE outcome.df)
    ELSE dict

\* lines 22, 24: what one download's outcome writes to the page
FetchMessage(ticker, outcome) ==
    IF outcome.kind = "error"
    THEN <<Element("error", "Could not download data for " \o ticker \o ". Error: " \o outcome.msg)>>
    ELSE IF IsEmpty(outcome.df)
         THEN <<Element("warning", "No data returned for " \o ticker \o ".")>>
         ELSE <<>>

\* lines 14-24: one iteration of fetch_data's loop
FetchTicker ==
    /\ pc = "fetch"
    /\ Len(downloads) < Len(tickers_to_fetch)
    /\ LET k == Len(downloads) + 1
           ticker == tickers_to_fetch[k]
       IN  /\ downloads' = Append(downloads,
                  [ticker |-> ticker, period |-> PERIOD, interval |-> INTERVAL])
           /\ data_dict' = StoreResult(data_dict, ticker, feed[k])
           /\ ui' = ui \o FetchMessage(ticker, feed[k])
    /\ UNCHANGED <<widgets, feed, pc, configVars, all_data, resultVars, exception>>

\* lines 25, 92-96: fetch_data returns its dictionary; main writes the title
FetchReturn ==
    /\ pc = "fetch"
    /\ Len(downloads) = Len(tickers_to_fetch)
    /\ all_data' = data_dict
    /\ ui' = ui \o <<Element("title", widgets.index_name \o " Price Chart in " \o TARGET_CURRENCY),
                     Element("markdown", "Displaying a **" \o widgets.interval_name
                                         \o "** chart for the last **" \o PERIOD \o "**.")>>
    /\ pc' = "fetched"
    /\ UNCHANGED <<widgets, feed, configVars, fetchVars, resultVars, exception>>

\* the test with "or" in place of "and"
EitherFetched == INDEX_TICKER \in DOMAIN all_data \/ forex_ticker \in DOMAIN all_data

\* line 98
BothFetched == INDEX_TICKER \in DOMAIN all_data /\ forex_ticker \in DOMAIN all_data

\* lines 98-102: both series are there, merge and convert them
CallProcessData ==
    /\ pc = "fetched"
    /\ BothFetched
    /\ IF {INDEX_TICKER, forex_ticker} \subseteq DOMAIN all_data
       THEN LET r == process_data(all_data[INDEX_TICKER], all_data[forex_ticker],
                                  BASE_CURRENCY, TARGET_CURRENCY, show_ma20, show_ma50)
            IN  /\ combined_df' = r.combined_df
                /\ converted_close_col' = r.converted_close_col
                /\ pc' = "metrics"
                /\ UNCHANGED exception
       ELSE \* all_data[...] of a missing key
            /\ pc' = "crashed"
            /\ exception' = "KeyError"
            /\ UNCHANGED <<combined_df, converted_close_col>>
    /\ UNCHANGED <<widgets, feed, configVars, fetchVars, all_data,
                   price_change, price_change_pct, ui>>

\* lines 164-166: the error and the dump of the dictionary's keys
ReportFetchFailure ==
    /\ pc = "fetched"
    /\ ~BothFetched
    /\ ui' = ui \o <<Element("error", "Failed to fetch data for one or both tickers. Please check your settings or try again later."),
                     [kind |-> "write", text |-> "Debugging Info:", keys |-> DOMAIN all_data]>>
    /\ pc' = "halted"
    /\ UNCHANGED <<widgets, feed, configVars, fetchVars, all_data, resultVars, exception>>

\* lines 105-113: iloc[-1] and iloc[-2] raise IndexError on a frame that
\* short; otherwise the metric of the last two converted closes
DisplayMetrics ==
    /\ pc = "metrics"
    /\ LET n == Len(combined_df.index)
           close == combined_df.cols[converted_close_col]
       IN  IF n < 2
           THEN /\ pc' = "crashed"
                /\ exception' = "IndexError"
                /\ UNCHANGED <<price_change, price_change_pct, ui>>
           ELSE /\ price_change' = PriceChange(close[n], close[n - 1])
                /\ price_change_pct' =
                       PriceChangePct(PriceChange(close[n], close[n - 1]), close[n - 1])
                /\ ui' = ui \o <<Element("subheader", "Current Price"),
                                 [kind |-> "metric", text |-> "Price in " \o TARGET_CURRENCY,
                                  keys |-> {}, value |-> close[n],
                                  delta |-> PriceChange(close[n], close[n - 1]),
                                  delta_pct |-> PriceChangePct(
                                      PriceChange(close[n], close[n - 1]), close[n - 1])]>>
                /\ pc' = "chart"
                /\ UNCHANGED exception
    /\ UNCHANGED <<widgets, feed, configVars, fetchVars, all_data,
                   combined_df, converted_close_col>>

\* lines 131-134, 137-141: the moving averages drawn over the price
IndicatorLines == (IF show_ma20 THEN {"MA20"} ELSE {}) \cup (IF show_ma50 THEN {"MA50"} ELSE {})

\* lines 115-162: the chart, the table and the CSV download
RenderChart ==
    /\ pc = "chart"
    /\ ui' = ui \o <<[kind |-> "chart", text |-> chart_type,
                      keys |-> (IF chart_type = "Candlestick Chart"
                                THEN {"Price"} ELSE {converted_close_col})
                               \cup IndicatorLines],
                     [kind |-> "dataframe", text |-> "View & Download Raw Data",
                      keys |-> DOMAIN combined_df.cols],
                     Element("download_button",
                             INDEX_TICKER \o "_" \o TARGET_CURRENCY \o "_data.csv")>>
    /\ pc' = "done"
    /\ UNCHANGED <<widgets, feed, configVars, fetchVars, all_data, resultVars, exception>>

Next ==
    \/ Configure
    \/ FetchTicker
    \/ FetchReturn
    \/ CallProcessData
    \/ ReportFetchFailure
    \/ DisplayMetrics
    \/ RenderChart

-----------------------------------------------------------------------------
(* The provider's answers: the input families of the specifications.       *)

\* the columns of a downloaded frame
RawColumns == {"Open", "High", "Low", "Close", "Volume"}

\* one bar around a closing value
Bar(col, close) ==
    CASE col = "Open"   -> close - 1
      [] col = "High"   -> close + 2
      [] col = "Low"    -> close - 2
      [] col = "Close"  -> close
      [] col = "Volume" -> 1000

\* the frame with the given timestamps and closing values
Frame(ts, closes, multi) ==
    [index |-> ts, multi |-> multi,
     cols |-> [c \in RawColumns |-> [i \in 1..Len(ts) |-> Bar(c, closes[i])]]]

Data(df) == [kind |-> "data", df |-> df, msg |-> ""]

Failed(msg) == [kind |-> "error", df |-> NoFrame, msg |-> msg]

\* the elements of a set of timestamps in increasing order
RECURSIVE SortedSeq(_)
SortedSeq(S) ==
    IF S = {} THEN <<>>
    ELSE LET m == CHOOSE x \in S : \A y \in S : x <= y
         IN  <<m>> \o SortedSeq(S \ {m})

Rates == {-1, 0, 1}

IndexClose(t, v) == 90 + 10 * t * v

\* small index series: any set of timestamps, two price paths
SmallIndexOutcomes ==
    {Failed("timeout")} \cup
    {Data(Frame(SortedSeq(S), [i \in 1..Cardinality(S) |-> IndexClose(SortedSeq(S)[i], v)], TRUE)) :
        S \in SUBSET (1..MaxT), v \in {1, 2}}

\* small FX series: any set of timestamps, any rates, also zero and negative
SmallForexOutcomes ==
    {Failed("timeout")} \cup
    UNION {{Data(Frame(SortedSeq(S), [i \in 1..Cardinality(S) |-> r[SortedSeq(S)[i]]], TRUE)) :
               r \in [S -> Rates]} : S \in SUBSET (1..MaxT)}

LongClose(t) == 100 + ((t * 37) % 11)

LongRate(t) == 1 + (t % 3)

\* long series: consecutive timestamps, long enough for both windows
LongIndexOutcomes ==
    {Data(Frame([i \in 1..n |-> i], [i \in 1..n |-> LongClose(i)], TRUE)) : n \in 0..MaxLen}

LongForexOutcomes ==
    {Failed("timeout")} \cup
    {Data(Frame([i \in 1..n |-> i], [i \in 1..n |-> LongRate(i)], TRUE)) : n \in 0..MaxLen}

\* series of the control-flow specification
TinyOutcomes ==
    {Failed("timeout")} \cup
    {Data(Frame([i \in 1..n |-> i], [i \in 1..n |-> IndexClose(i, 1)], TRUE)) : n \in 0..TinyLen}

\* answers to fetch_data's requests: both column shapes, empty and not
FetchOutcomes ==
    {Failed("timeout")} \cup
    {Data(Frame([i \in 1..n |-> i], [i \in 1..n |-> IndexClose(i, 1)], m)) :
        n \in {0, 1}, m \in BOOLEAN}

DefaultWidgets ==
    [index_name |-> "Dow Jones Industrial Average", currency |-> "EUR",
     interval_name |-> "1 Minute", chart_type |-> "Line Chart",
     show_ma20 |-> TRUE, show_ma50 |-> FALSE]

\* the default selections, with any indicator flags
FlagWidgets ==
    {[DefaultWidgets EXCEPT !.show_ma20 = a, !.show_ma50 = b] : a, b \in BOOLEAN}

\* the state before the script runs
Fresh ==
    /\ pc = "start"
    /\ INDEX_TICKER = "" /\ TARGET_CURRENCY = "" /\ INTERVAL = "" /\ PERIOD = ""
    /\ forex_ticker = "" /\ tickers_to_fetch = <<>>
    /\ downloads = <<>> /\ data_dict = <<>> /\ all_data = <<>>
    /\ combined_df = NoFrame /\ converted_close_col = ""
    /\ price_change = 0 /\ price_change_pct = NaN
    /\ ui = <<>> /\ exception = ""

\* any selections, the short series
Init ==
    /\ widgets \in AllWidgets
    /\ feed \in [1..2 -> TinyOutcomes]
    /\ Fresh

Spec == Init /\ [][Next]_vars

\* the default selections, the small series with arbitrary timestamps
InitMerge ==
    /\ widgets \in FlagWidgets
    /\ feed \in {<<a, b>> : a \in SmallIndexOutcomes, b \in SmallForexOutcomes}
    /\ Fresh

SpecMerge == InitMerge /\ [][Next]_vars

\* the default selections, the long series
InitLong ==
    /\ widgets \in FlagWidgets
    /\ feed \in {<<a, b>> : a \in LongIndexOutcomes, b \in LongForexOutcomes}
    /\ Fresh

SpecLong == InitLong /\ [][Next]_vars

FetchTickers == {"^DJI", "USDEUR=X"}

\* fetch_data called with any list of tickers
InitFetch ==
    /\ widgets = DefaultWidgets
    /\ \E n \in 0..MaxTickers :
          /\ tickers_to_fetch \in [1..n -> FetchTickers]
          /\ feed \in [1..n -> FetchOutcomes]
    /\ pc = "fetch"
    /\ INDEX_TICKER = "^DJI" /\ TARGET_CURRENCY = "EUR" /\ INTERVAL = "1d" /\ PERIOD = "1y"
    /\ forex_ticker = "USDEUR=X"
    /\ downloads = <<>> /\ data_dict = <<>> /\ all_data = <<>>
    /\ combined_df = NoFrame /\ converted_close_col = ""
    /\ price_change = 0 /\ price_change_pct = NaN
    /\ ui = <<>> /\ exception = ""

NextFetch == FetchTicker \/ FetchReturn

SpecFetch == InitFetch /\ [][NextFetch]_vars

-----------------------------------------------------------------------------
(* Vocabulary of the properties.                                           *)

Timestamps(df) == {df.index[i] : i \in 1..Len(df.index)}

\* the value of a column at a timestamp
ValueAt(df, col, t) == df.cols[col][CHOOSE i \in 1..Len(df.index) : df.index[i] = t]

\* process_data has returned
Processed == converted_close_col # ""

\* the frames the provider answered with, when both requests were answered
IndexSeries == feed[1].df
ForexSeries == feed[2].df

Shared == Timestamps(IndexSeries) \cap Timestamps(ForexSeries)

Min(a, b) == IF a < b THEN a ELSE b

\* a download answered with rows
Delivered(k) == feed[k].kind = "data" /\ Len(feed[k].df.index) > 0

\* the page names the ticker in a warning or an error of its fetch
NamedAsMissing(ticker) ==
    \E i \in 1..Len(ui) :
        /\ ui[i].kind \in {"warning", "error"}
        /\ \/ ui[i].text = "No data returned for " \o ticker \o "."
           \/ ui[i].text = "Could not download data for " \o ticker \o ". Error: timeout"

FetchFailedText ==
    "Failed to fetch data for one or both tickers. Please check your settings or try again later."

-----------------------------------------------------------------------------
(* C1.  fetch_data attempts every ticker of its list, whatever the earlier *)
(* outcomes were, raises nothing, and the keys of its dictionary are       *)
(* exactly the tickers a download of which returned rows: an empty answer  *)
(* or a download error leaves the ticker out, and only that ticker.        *)
C1_FetchKeys ==
    /\ exception = ""
    /\ \A k \in 1..Len(downloads) : downloads[k].ticker = tickers_to_fetch[k]
    /\ DOMAIN data_dict = {tickers_to_fetch[k] : k \in {j \in 1..Len(downloads) : Delivered(j)}}
    /\ pc = "fetched" =>
          /\ Len(downloads) = Len(tickers_to_fetch)
          /\ DOMAIN all_data =
                 {tickers_to_fetch[k] : k \in {j \in 1..Len(tickers_to_fetch) : Delivered(j)}}

\* a batch whose first download raised, whose second was empty and whose
\* third delivered: only the third ticker is in the result
C1_Witness ==
    /\ pc = "fetched"
    /\ Len(tickers_to_fetch) = 3
    /\ feed[1].kind = "error"
    /\ feed[2].kind = "data" /\ Len(feed[2].df.index) = 0
    /\ Delivered(3)
    /\ tickers_to_fetch[1] # tickers_to_fetch[3]
    /\ tickers_to_fetch[2] = tickers_to_fetch[1]
    /\ DOMAIN all_data = {tickers_to_fetch[3]}

(* C2.  process_data is called only after both downloads were attempted    *)
(* and only with both tickers in the fetch result; when one is missing the *)
(* run halts without a merge, with the fetch-failure error, the keys that  *)
(* were fetched, and a fetch warning or error naming each missing ticker.  *)
C2_MergeOnlyWithBoth ==
    LET required == {INDEX_TICKER, forex_ticker}
    IN  /\ (Processed \/ pc = "metrics") =>
              /\ Len(downloads) = 2
              /\ {downloads[k].ticker : k \in 1..2} = required
              /\ required \subseteq DOMAIN all_data
        /\ (pc \notin {"start", "fetch", "fetched"} /\ ~(required \subseteq DOMAIN all_data)) =>
              /\ pc = "halted"
              /\ exception = ""
              /\ ~Processed /\ combined_df = NoFrame
              /\ \E i \in 1..Len(ui) : ui[i].kind = "error" /\ ui[i].text = FetchFailedText
              /\ \E i \in 1..Len(ui) : ui[i].kind = "write" /\ ui[i].keys = DOMAIN all_data
              /\ \A t \in required \ DOMAIN all_data : NamedAsMissing(t)

\* the partial fetch: the FX download raised, the index download delivered
C2_Witness ==
    /\ pc = "halted"
    /\ feed[2].kind = "error"
    /\ DOMAIN all_data = {INDEX_TICKER}
    /\ NamedAsMissing(forex_ticker)

(* C3.  The timestamps of process_data's output are exactly the timestamps *)
(* the index series and the FX series have in common, each once and in     *)
(* increasing order; with no common timestamp the output has no rows.      *)
C3_InnerJoin ==
    Processed =>
        /\ Timestamps(combined_df) = Shared
        /\ Len(combined_df.index) = Cardinality(Shared)
        /\ \A i \in 1..(Len(combined_df.index) - 1) :
               combined_df.index[i] < combined_df.index[i + 1]
        /\ Shared = {} => Len(combined_df.index) = 0

\* each series has a timestamp the other lacks, and they share one
C3_Witness ==
    /\ Processed
    /\ Timestamps(IndexSeries) \ Timestamps(ForexSeries) # {}
    /\ Timestamps(ForexSeries) \ Timestamps(IndexSeries) # {}
    /\ \E t \in Timestamps(ForexSeries) \ Timestamps(IndexSeries) :
           \E u \in Timestamps(IndexSeries) : t < u
    /\ Len(combined_df.index) = 1

(* C4 as stated.  The merged length is at most the shorter input's length, *)
(* and equals it only when the two timestamp sets are identical.           *)
C4_EqualityOnlyWhenIdentical ==
    Processed =>
        /\ Len(combined_df.index) <= Min(Len(IndexSeries.index), Len(ForexSeries.index))
        /\ Len(combined_df.index) = Min(Len(IndexSeries.index), Len(ForexSeries.index))
               => Timestamps(IndexSeries) = Timestamps(ForexSeries)

(* C4 as amended.  The merged length is at most the shorter input's        *)
(* length, and equals it exactly when the timestamps of one series are all *)
(* timestamps of the other.                                                *)
C4_LengthBound ==
    Processed =>
        /\ Len(combined_df.index) <= Min(Len(IndexSeries.index), Len(ForexSeries.index))
        /\ Len(combined_df.index) = Min(Len(IndexSeries.index), Len(ForexSeries.index))
               <=> \/ Timestamps(IndexSeries) \subseteq Timestamps(ForexSeries)
                   \/ Timestamps(ForexSeries) \subseteq Timestamps(IndexSeries)

\* the shorter series' timestamps are some of the longer one's: the merged
\* length is the minimum although the sets differ
C4_Witness ==
    /\ Processed
    /\ Timestamps(IndexSeries) # Timestamps(ForexSeries)
    /\ Timestamps(IndexSeries) \subseteq Timestamps(ForexSeries)
    /\ Len(combined_df.index) = Len(IndexSeries.index)
    /\ Len(combined_df.index) > 0

(* C5.  At every timestamp of the output, each of Open, High, Low, Close   *)
(* in the target currency is the index series' value at that timestamp     *)
(* times the FX close at that timestamp, also for a zero or negative rate, *)
(* and every shared timestamp is kept whatever its rate.                   *)
C5_Conversion ==
    Processed =>
        /\ Shared \subseteq Timestamps(combined_df)
        /\ \A i \in 1..Len(combined_df.index) :
               LET t == combined_df.index[i]
               IN  /\ t \in Shared
                   /\ combined_df.cols["Forex_Rate"][i] = ValueAt(ForexSeries, "Close", t)
                   /\ \A k \in 1..Len(OHLC) :
                          /\ combined_df.cols[ColName(OHLC[k], BASE_CURRENCY)][i]
                                 = ValueAt(IndexSeries, OHLC[k], t)
                          /\ combined_df.cols[ColName(OHLC[k], TARGET_CURRENCY)][i]
                                 = ValueAt(IndexSeries, OHLC[k], t)
                                   * ValueAt(ForexSeries, "Close", t)

\* an output with a zero rate and a negative rate: a zero and a negative price
C5_Witness ==
    /\ Processed
    /\ \E i, j \in 1..Len(combined_df.index) :
           /\ combined_df.cols["Forex_Rate"][i] = 0
           /\ combined_df.cols[converted_close_col][i] = 0
           /\ combined_df.cols["Forex_Rate"][j] < 0
           /\ combined_df.cols[ColName("Open", TARGET_CURRENCY)][j] < 0
           /\ combined_df.cols[ColName("Open", TARGET_CURRENCY)][j]
                  # combined_df.cols[converted_close_col][j]

\* the sum of the w values of s that end at position i
RECURSIVE WindowTotal(_, _, _)
WindowTotal(s, i, w) == IF w = 0 THEN 0 ELSE WindowTotal(s, i - 1, w - 1) + s[i]

\* column is the w-row moving average of close: no value on the first w - 1
\* rows, the mean of the last w closes on the others
IsMovingAverage(column, close, w) ==
    /\ Len(column) = Len(close)
    /\ \A i \in 1..Len(close) :
           IF i < w
           THEN column[i] = NaN
           ELSE /\ column[i].den > 0
                /\ column[i].num * w = column[i].den * WindowTotal(close, i, w)

(* C6.  The output has the column MA20 exactly when show_ma20 and the      *)
(* column MA50 exactly when show_ma50; the column of window w holds no     *)
(* value (not zero) on the first w - 1 rows and on every later row the     *)
(* arithmetic mean of the converted closes of that row and the w - 1 rows  *)
(* before it, whatever the other flag is.                                  *)
C6_MovingAverages ==
    Processed =>
        /\ ("MA20" \in DOMAIN combined_df.cols) <=> show_ma20
        /\ ("MA50" \in DOMAIN combined_df.cols) <=> show_ma50
        /\ show_ma20 => IsMovingAverage(combined_df.cols["MA20"],
                                        combined_df.cols[converted_close_col], MA20_WINDOW)
        /\ show_ma50 => IsMovingAverage(combined_df.cols["MA50"],
                                        combined_df.cols[converted_close_col], MA50_WINDOW)

\* both windows requested on a series longer than the longer window: both
\* columns have rows without a value and rows with a mean that is no integer
C6_Witness ==
    /\ Processed
    /\ show_ma20 /\ show_ma50
    /\ Len(combined_df.index) > MA50_WINDOW
    /\ combined_df.cols["MA50"][MA50_WINDOW - 1] = NaN
    /\ combined_df.cols["MA50"][MA50_WINDOW].den > 1
    /\ combined_df.cols["MA50"][MA50_WINDOW + 1] # combined_df.cols["MA50"][MA50_WINDOW]
    /\ combined_df.cols["MA20"][MA20_WINDOW - 1] = NaN
    /\ combined_df.cols["MA20"][MA20_WINDOW].den > 1

(* C7.  When both series were fetched and share no timestamp, the run      *)
(* reports the missing overlap on the page, with a message other than the  *)
(* fetch-failure one, and ends without an exception.                       *)
C7_NoOverlapReported ==
    (Processed /\ Len(combined_df.index) = 0 /\ pc # "metrics") =>
        /\ exception = ""
        /\ pc # "crashed"
        /\ \E i \in 1..Len(ui) :
               ui[i].kind \in {"warning", "error", "info"} /\ ui[i].text # FetchFailedText

(* C9.  When the merged series has exactly one point, the run signals that *)
(* the change and its percentage are undefined: it raises nothing and      *)
(* shows no change computed from a point that is not there.                *)
C9_InsufficientHistorySignalled ==
    (Processed /\ Len(combined_df.index) = 1 /\ pc # "metrics") =>
        /\ exception = ""
        /\ pc # "crashed"
        /\ \A i \in 1..Len(ui) : ui[i].kind # "metric"

\* the converted close of the merged row at the k-th largest shared timestamp
SharedDescending == [k \in 1..Cardinality(Shared) |->
                        SortedSeq(Shared)[Cardinality(Shared) + 1 - k]]
ExpectedClose(k) == ValueAt(IndexSeries, "Close", SharedDescending[k])
                    * ValueAt(ForexSeries, "Close", SharedDescending[k])

(* C10.  With at least two merged points the summary shows the converted   *)
(* close of the latest shared timestamp, delta = that close minus the      *)
(* converted close of the shared timestamp before it, and pct = delta /    *)
(* previous close * 100 (the float quotient: inf, -inf or NaN when the     *)
(* previous close is zero).                                                *)
C10_PriceChange ==
    /\ (Processed /\ Len(combined_df.index) >= 2 /\ pc # "metrics") => pc \in {"chart", "done"}
    /\ pc \in {"chart", "done"} =>
          /\ Cardinality(Shared) >= 2
          /\ price_change = ExpectedClose(1) - ExpectedClose(2)
          /\ IF ExpectedClose(2) = 0
             THEN price_change_pct = [num |-> Sign(price_change), den |-> 0]
             ELSE /\ price_change_pct.den > 0
                  /\ price_change_pct.num * ExpectedClose(2)
                         = price_change_pct.den * price_change * PERCENT
          /\ \E i \in 1..Len(ui) :
                 /\ ui[i].kind = "metric"
                 /\ ui[i].value = ExpectedClose(1)
                 /\ ui[i].delta = price_change
                 /\ ui[i].delta_pct = price_change_pct

\* the spec's example: last close 110, previous close 100, delta 10, pct 10
C10_Witness ==
    /\ pc = "done"
    /\ Len(combined_df.index) = 2
    /\ combined_df.cols[converted_close_col][2] = 110
    /\ combined_df.cols[converted_close_col][1] = 100
    /\ price_change = 10
    /\ price_change_pct = [num |-> 10, den |-> 1]

Intraday == {"1m", "5m", "15m", "30m", "1h"}

(* C8.  Every download is requested with the selected interval and with a  *)
(* period that the interval alone decides: "59d" for 1m, 5m, 15m, 30m and  *)
(* 1h, "1y" for 1d, and no other period.                                   *)
C8_PeriodFromInterval ==
    /\ \A k \in 1..Len(downloads) :
          /\ downloads[k].interval = interval_options[widgets.interval_name]
          /\ downloads[k].interval \in Intraday \cup {"1d"}
          /\ downloads[k].interval \in Intraday => downloads[k].period = "59d"
          /\ downloads[k].interval = "1d" => downloads[k].period = "1y"
    /\ pc \notin {"start", "fetch"} => Len(downloads) = 2

\* both downloads of an hourly chart were requested for 59 days
C8_Witness ==
    /\ Len(downloads) = 2
    /\ widgets.interval_name = "1 Hour"
    /\ downloads[1].period = "59d" /\ downloads[2].period = "59d"
    /\ downloads[1].interval = "1h"

====
